---- MODULE Spec2Model ----
(***************************************************************************)
(* Model of profiler/models/profiler_profile.py: the profiling session     *)
(* coordinator (ProfilerProfile.enable / disable / clear / unlink), the     *)
(* sampling scope (ProfilerProfile.profiling), the connection-pool          *)
(* reconfigurator (_reset_postgresql / _reset_connection) and the probe of  *)
(* externally configured logging (set_pgoptions_enabled).                   *)
(*                                                                         *)
(* Conventions                                                             *)
(*  - Python None / True / False of the class attributes are the strings   *)
(*    "None", "True", "False"; Truthy(v) is Python's truth test.            *)
(*  - A timestamp is "unset" (the Char field is False), "now" (written at  *)
(*    the current reading of the server clock) or "old" (written at an     *)
(*    earlier reading). Tick lets the clock advance. Every write stores    *)
(*    now_utc(), so a field is unchanged iff its abstract value is.         *)
(*  - A parameter value is "o" (the server's own value) or "t" (the value  *)
(*    PGOPTIONS asks for).                                                 *)
(*  - A handler is one action. Its sub-calls are operators on a record of  *)
(*    the program state (field exc: "none", "UserError" or "Error").       *)
(***************************************************************************)
EXTENDS Integers, Sequences, FiniteSets, TLC

VARIABLES
    enabled,                     \* ProfilerProfile.enabled (class attribute)
    pglogs_enabled,              \* ProfilerProfile.pglogs_enabled
    activate_deactivate_pglogs,  \* ProfilerProfile.activate_deactivate_pglogs
    psql_params_original,        \* ProfilerProfile.psql_params_original (dict)
    environ,                     \* os.environ["PGOPTIONS"] ("" when unset)
    pool,                        \* sql_db._Pool._connections: per connection, param -> value
    profile,                     \* ProfilerProfile.profile, the shared cProfile.Profile
    sessions,                    \* the profiler.profile records
    marker,                      \* httprequest.session.oca_profiler, per context (0 is False)
    pc,                          \* per context: where its unit of work is in profiling()
    blobs,                       \* the ir.attachment records
    lines,                       \* the profiler.profile.request.line records
    statlines,                   \* per session: its profiler.profile.python.line records (how many)
    workers,                     \* tools.config["workers"]
    server,                      \* the database server's own parameter values
    report_line,                 \* py_stat_line: a line of the textual report, as characters
    parsed,                      \* what the indexing loop made of report_line
    recorded,                    \* history: the sessions in whose cycle the shared sampler recorded work
    last                         \* the last step taken and how it ended

vars == <<enabled, pglogs_enabled, activate_deactivate_pglogs, psql_params_original,
          environ, pool, profile, sessions, marker, pc, blobs, lines, statlines,
          workers, server, report_line, parsed, recorded, last>>

----------------------------------------------------------------------------
(* Bounds of the model *)

\* sessions of Spec, SpecScope and SpecCoord
NSessions == 2
\* sessions of SpecPool
PoolSessions == 1
\* contexts of SpecCoord
NContexts == 2
\* pooled connections of SpecPool
NConns == 2
\* logging parameters (PGOPTIONS has nine)
NParams == 2
\* entries the shared sampler's buffer holds
MaxBuf == 1
\* attachments
MaxBlobs == 2
\* request lines
MaxLines == 1
\* contexts of Spec and SpecScope
OneContext == 1
\* pooled connections of Spec, SpecScope and SpecCoord
OneConn == 1

Params == 1..NParams

----------------------------------------------------------------------------
(* Constants of the program *)

\* PGOPTIONS: the target value of every logging parameter
PGOPTIONS == [p \in Params |-> "t"]

\* PGOPTIONS_ENV: the value enable() stores in os.environ["PGOPTIONS"]
PGOPTIONS_ENV == "PGOPTIONS_ENV"

\* pgparams_required in set_pgoptions_enabled: log_min_duration_statement,
\* the first key of PGOPTIONS
pgparams_required == {1}

MODEL_PROFILE == "profiler.profile"
MODEL_REQUEST_LINE == "profiler.profile.request.line"

Truthy(v) == v = "True"

\* CPROFILE_EMPTY_CHARS: what an empty buffer serialises to. A serialised
\* buffer is the number of entries it holds, so the sentinel is 0.
CPROFILE_EMPTY_CHARS == 0

\* Profile.dump_stats(path) followed by reading the file back
Marshal(stats) == IF stats = 0 THEN CPROFILE_EMPTY_CHARS ELSE stats

BoolStr(b) == IF b THEN "True" ELSE "False"

\* now_utc(): the server clock, read now
now_utc == "now"

\* self.enable_python and self.python_method == "full"
IsFull(r) == r.enable_python /\ r.python_method = "full"

\* self.enable_python and self.python_method == "request"
IsRequest(r) == r.enable_python /\ r.python_method = "request"

----------------------------------------------------------------------------
(* The program state a handler runs on, and the handlers' sub-calls *)

Here ==
    [enabled |-> enabled, adp |-> activate_deactivate_pglogs, environ |-> environ,
     pool |-> pool, profile |-> profile, sessions |-> sessions, marker |-> marker,
     blobs |-> blobs, lines |-> lines, statlines |-> statlines, exc |-> "none",
     pg |-> "not_reached", az |-> "none", idx |-> FALSE, rej |-> <<0, 0>>]

\* pool_cr.execute("SET {} TO {}") for every item of params, all accepted
SetAll(conn, params) ==
    [p \in DOMAIN conn |-> IF p \in DOMAIN params THEN params[p] ELSE conn[p]]

\* the connection when the SET of parameter p is rejected: the SETs of the
\* items before it were executed (the order of the items does not matter,
\* the rollback undoes all of them)
SetBefore(conn, params, p) ==
    [q \in DOMAIN conn |-> IF q \in DOMAIN params /\ q < p THEN params[q] ELSE conn[q]]

\* a rejected SET that leaves the connection's transaction as it is
Rollback_missing(before, partial) == partial

\* pool_cr.connection.rollback(): the connection is touched through a cursor
\* of its own, on a transaction boundary, so the rollback undoes this pass
Rollback(before, partial) == before

\* a restoring pass that uses the target values
pass_params_always_target(enable) == PGOPTIONS

\* params = PGOPTIONS if enable else ProfilerProfile.psql_params_original
pass_params(enable) == IF enable THEN PGOPTIONS ELSE psql_params_original

\* _reset_connection(enable). rej = <<k, p>>: the SET of parameter p on
\* connection k is the first one the server rejects (OperationalError or
\* ProgrammingError); no SET is rejected when <<k, p>> is no SET of the pass.
reset_connection(st, enable, rej) ==
    LET params == pass_params(enable)
        hit == rej[1] \in DOMAIN st.pool /\ rej[2] \in DOMAIN params
        done == IF hit THEN rej[1] - 1 ELSE Len(st.pool)
    IN  [st EXCEPT
            !.pool = [k \in DOMAIN st.pool |->
                        IF k <= done THEN SetAll(st.pool[k], params)
                        ELSE IF k = done + 1
                             THEN Rollback(st.pool[k], SetBefore(st.pool[k], params, rej[2]))
                             ELSE st.pool[k]],
            !.adp = IF done >= 1 THEN BoolStr(enable) ELSE @,
            !.exc = IF hit THEN "UserError" ELSE "none",
            !.rej = IF hit THEN rej ELSE @,
            !.pg = IF hit THEN (IF enable THEN "rejected_on" ELSE "rejected_off")
                   ELSE (IF enable THEN "on" ELSE "off")]

\* _reset_postgresql() without the test of pglogs_enabled
reset_postgresql_unguarded(st, s, rej) ==
    IF ~st.sessions[s].enable_postgresql THEN [st EXCEPT !.pg = "not_requested"]
    ELSE LET on == st.sessions[s].state = "enabled"
         IN  reset_connection([st EXCEPT !.environ = IF on THEN PGOPTIONS_ENV ELSE ""],
                              on, rej)

\* _reset_postgresql()
reset_postgresql(st, s, rej) ==
    IF ~st.sessions[s].enable_postgresql THEN [st EXCEPT !.pg = "not_requested"]
    ELSE IF Truthy(pglogs_enabled) THEN [st EXCEPT !.pg = "external"]
    ELSE LET on == st.sessions[s].state = "enabled"
         IN  reset_connection([st EXCEPT !.environ = IF on THEN PGOPTIONS_ENV ELSE ""],
                              on, rej)

\* self.env["ir.attachment"].create({...})
Attach(st, model, id, kind, datas) ==
    [st EXCEPT !.blobs = Append(@, [res_model |-> model, res_id |-> id,
                                    kind |-> kind, datas |-> datas])]

\* the outcomes of the external log analyzer step
AnalyzerOutcomes ==
    {"no_binary", "log_unreadable", "invoke_fails", "empty_output", "scrape_fails", "ok"}

\* the outcomes that are failures of the step
AnalyzerFailures == AnalyzerOutcomes \ {"ok"}

\* an analyzer step that never stores its report
dump_postgresql_logs_no_report(st, s, az) == [st EXCEPT !.az = az]

\* dump_postgresql_logs(): _get_pgbadger_command catches OSError of
\* find_in_path and of open(pg_log_path) and returns None; nothing catches
\* what exec_command_pipe or _compute_pgbadger_html raise.
dump_postgresql_logs(st, s, az) ==
    LET st1 == [st EXCEPT !.az = az]
    IN  CASE az \in {"no_binary", "log_unreadable"} -> st1
          [] az = "invoke_fails" -> [st1 EXCEPT !.exc = "Error"]
          [] az = "empty_output" -> st1
          [] az = "scrape_fails" ->
                [Attach(st1, MODEL_PROFILE, s, "pg_stats", 1) EXCEPT !.exc = "Error"]
          [] az = "ok" -> Attach(st1, MODEL_PROFILE, s, "pg_stats", 1)

\* the report of get_stats_string: one well-formed line per entry of the
\* buffer, between header and footer lines that LINE_STATS_RE does not match
WellFormedLines(stats) == stats

\* dump_stats(), if self.use_py_index (idx): the session's python lines are
\* deleted and one is created per line of the report that LINE_STATS_RE matches
index_stats(st, s, idx) ==
    IF idx
    THEN [st EXCEPT !.statlines[s] = WellFormedLines(st.profile.stats), !.idx = TRUE]
    ELSE st

\* dump_stats(): _get_attachment_name formats date_started, which raises
\* when the field was never written; Profile.dump_stats calls create_stats,
\* which disables the sampler before it snapshots the buffer.
dump_stats(st, s, az, idx) ==
    IF st.sessions[s].date_started = "unset" THEN [st EXCEPT !.exc = "Error"]
    ELSE LET datas == Marshal(st.profile.stats)
             st1 == [st EXCEPT !.profile.enabled = FALSE]
         IN  IF datas # CPROFILE_EMPTY_CHARS
             THEN dump_postgresql_logs(
                      index_stats(Attach(st1, MODEL_PROFILE, s, "py_stats", datas), s, idx),
                      s, az)
             ELSE st1

\* a clear() that resets the start timestamp whatever reset_date is
clear_always_resets(st, s, reset_date) ==
    [st EXCEPT !.sessions[s].date_started = now_utc,
               !.profile.stats = 0]

\* clear(reset_date)
clear(st, s, reset_date) ==
    [st EXCEPT !.sessions[s].date_started = IF reset_date THEN now_utc ELSE @,
               !.profile.stats = 0]

\* the precondition with the two modes exchanged
multi_worker_full_wrong_mode(r) ==
    workers # 0 /\ r.enable_python /\ r.python_method = "request"

\* tools.config.get("workers") and self.enable_python and
\* self.python_method == "full"
multi_worker_full(r) ==
    workers # 0 /\ r.enable_python /\ r.python_method = "full"

\* enable(), called in context c
enable(st, c, s, rej) ==
    LET r == st.sessions[s]
    IN  IF multi_worker_full(r)
        THEN [st EXCEPT !.exc = "UserError"]
        ELSE IF IsFull(r)
        THEN reset_postgresql(
                 [st EXCEPT !.enabled = "True",
                            !.sessions[s].date_started = now_utc,
                            !.sessions[s].state = "enabled"], s, rej)
        ELSE IF IsRequest(r)
        THEN [st EXCEPT !.marker[c] = s,
                        !.sessions[s].date_started = now_utc,
                        !.sessions[s].state = "enabled"]
        ELSE st

\* a disable() that clears the shared buffer before it dumps it
disable_clear_first(st, c, s, az, idx, rej) ==
    LET r == st.sessions[s]
        st1 == [st EXCEPT !.enabled = IF IsFull(r) THEN "False" ELSE @,
                          !.marker[c] = IF ~IsFull(r) /\ IsRequest(r) THEN 0 ELSE @,
                          !.sessions[s].state = "disabled",
                          !.sessions[s].date_finished = now_utc]
        st2 == clear(st1, s, FALSE)
        st3 == IF IsFull(r) THEN dump_stats(st2, s, az, idx) ELSE st2
    IN  IF st3.exc # "none" THEN st3 ELSE reset_postgresql(st3, s, rej)

\* disable(), called in context c
disable(st, c, s, az, idx, rej) ==
    LET r == st.sessions[s]
        st1 == [st EXCEPT !.enabled = IF IsFull(r) THEN "False" ELSE @,
                          !.marker[c] = IF ~IsFull(r) /\ IsRequest(r) THEN 0 ELSE @,
                          !.sessions[s].state = "disabled",
                          !.sessions[s].date_finished = now_utc]
        st2 == IF IsFull(r) THEN dump_stats(st1, s, az, idx) ELSE st1
        st3 == IF st2.exc # "none" THEN st2 ELSE clear(st2, s, FALSE)
    IN  IF st3.exc # "none" THEN st3 ELSE reset_postgresql(st3, s, rej)

\* unlink(): the session's own attachments, then the record; its request
\* lines go with it (ondelete="cascade")
unlink(st, s) ==
    [st EXCEPT
        !.blobs = SelectSeq(@, LAMBDA b: ~(b.res_model = MODEL_PROFILE /\ b.res_id = s)),
        !.lines = [i \in DOMAIN @ |->
                     IF @[i].profile_id = s THEN [@[i] EXCEPT !.alive = FALSE] ELSE @[i]],
        !.statlines[s] = 0,
        !.sessions[s].exists = FALSE]

\* An exception leaves the handler. The caller's transaction is not part of
\* this code: the record writes of the failed call are kept (rb = FALSE) or
\* rolled back with the transaction (rb = TRUE). Class attributes, the
\* environment, the pooled connections and the sampler are not transactional.
Leave(st, rb) ==
    IF st.exc # "none" /\ rb
    THEN [st EXCEPT !.sessions = sessions, !.blobs = blobs, !.lines = lines,
                    !.statlines = statlines]
    ELSE st

Commit(st) ==
    /\ enabled' = st.enabled
    /\ activate_deactivate_pglogs' = st.adp
    /\ environ' = st.environ
    /\ pool' = st.pool
    /\ profile' = st.profile
    /\ sessions' = st.sessions
    /\ marker' = st.marker
    /\ blobs' = st.blobs
    /\ lines' = st.lines
    /\ statlines' = st.statlines

\* what the step was: the call, its session, how it ended (res), what
\* _reset_postgresql did (pg), the analyzer outcome met (az) and the SET
\* that was rejected (rej)
\* (was: activate_deactivate_pglogs when a pass over the pool began)
Step(op, s, st) ==
    [op |-> op, sid |-> s, res |-> st.exc, pg |-> st.pg, az |-> st.az, idx |-> st.idx,
     rej |-> st.rej,
     was |-> IF st.pg \in {"on", "off", "rejected_on", "rejected_off"}
             THEN activate_deactivate_pglogs ELSE "None"]

Other(op, res) ==
    [op |-> op, sid |-> 0, res |-> res, pg |-> "not_reached", az |-> "none",
     idx |-> FALSE, rej |-> <<0, 0>>, was |-> "None"]

\* The inputs of a call are drawn only where the call consumes them:
\* an analyzer outcome when the analyzer step runs (st: the call with the
\* outcome "ok"), a rejected SET when a pass over the pool runs (st: the
\* call with no rejection), the fate of the transaction when it raises.
AnalyzerInputs(st) == IF st.az = "none" THEN {"ok"} ELSE AnalyzerOutcomes
IndexInputs(st) == IF st.az = "none" THEN {FALSE} ELSE BOOLEAN
RejectInputs(st) ==
    IF st.pg \in {"on", "off"} THEN {<<0, 0>>} \cup ((DOMAIN st.pool) \X Params)
    ELSE {<<0, 0>>}
RollbackInputs(st) == IF st.exc = "none" THEN {FALSE} ELSE BOOLEAN

NoRej == <<0, 0>>

\* the registry calls _setup_complete before it serves any call
RegistryReady == pglogs_enabled # "None"

Idle == [at |-> "idle", oca |-> 0, priv |-> 0]

----------------------------------------------------------------------------
(* The operations *)

\* set_pgoptions_enabled(), called by _setup_complete; self.env.cr runs on
\* pooled connection k
set_pgoptions_enabled(k) ==
    IF environ # ""
    THEN /\ pglogs_enabled' = "True"
         /\ UNCHANGED psql_params_original
    ELSE /\ pglogs_enabled' =
                IF \E p \in pgparams_required : PGOPTIONS[p] # pool[k][p]
                THEN "False" ELSE "True"
         /\ psql_params_original' = pool[k]

SetupComplete(k) ==
    /\ set_pgoptions_enabled(k)
    /\ last' = Other("setup", "none")
    /\ UNCHANGED <<enabled, activate_deactivate_pglogs, environ, pool, profile,
                   sessions, marker, pc, blobs, lines, workers, server, recorded, statlines,
                   report_line, parsed>>

Call(op, s, st) ==
    /\ Len(st.blobs) <= MaxBlobs
    /\ Commit(st)
    /\ last' = Step(op, s, st)
    /\ recorded' = IF op = "enable" /\ sessions[s].state = "disabled"
                   THEN recorded \ {s} ELSE recorded
    /\ UNCHANGED <<pglogs_enabled, psql_params_original, pc, workers, server,
                   report_line, parsed>>

Enable(c, s) ==
    /\ RegistryReady
    /\ sessions[s].exists
    /\ \E rej \in RejectInputs(enable(Here, c, s, NoRej)) :
          LET st == enable(Here, c, s, rej)
          IN  \E rb \in RollbackInputs(st) : Call("enable", s, Leave(st, rb))

Disable(c, s) ==
    /\ RegistryReady
    /\ sessions[s].exists
    /\ \E az \in AnalyzerInputs(disable(Here, c, s, "ok", FALSE, NoRej)),
          idx \in IndexInputs(disable(Here, c, s, "ok", FALSE, NoRej)) :
          \E rej \in RejectInputs(disable(Here, c, s, az, idx, NoRej)) :
             LET st == disable(Here, c, s, az, idx, rej)
             IN  \E rb \in RollbackInputs(st) : Call("disable", s, Leave(st, rb))

Clear(c, s) ==
    /\ RegistryReady
    /\ sessions[s].exists
    /\ \E reset_date \in BOOLEAN :
          Call(IF reset_date THEN "clear_reset" ELSE "clear", s,
               clear(Here, s, reset_date))

Unlink(c, s) ==
    /\ RegistryReady
    /\ sessions[s].exists
    /\ Call("unlink", s, unlink(Here, s))

\* the server clock moves on: what was written "now" is old
Tick ==
    /\ \E s \in DOMAIN sessions :
          sessions[s].date_started = "now" \/ sessions[s].date_finished = "now"
    /\ sessions' = [s \in DOMAIN sessions |->
          [sessions[s] EXCEPT !.date_started = IF @ = "now" THEN "old" ELSE @,
                              !.date_finished = IF @ = "now" THEN "old" ELSE @]]
    /\ last' = Other("tick", "none")
    /\ UNCHANGED <<enabled, pglogs_enabled, activate_deactivate_pglogs,
                   psql_params_original, environ, pool, profile, marker, pc,
                   blobs, lines, workers, server, recorded, statlines,
                   report_line, parsed>>

----------------------------------------------------------------------------
(* The sampling scope: profiling() around one unit of work of context c *)

\* an entry that consults the per-request marker before the process flag
Enter_marker_first(c) ==
    /\ RegistryReady
    /\ pc[c].at = "idle"
    /\ IF marker[c] # 0
       THEN /\ pc' = [pc EXCEPT ![c] = [at |-> "request", oca |-> marker[c], priv |-> 0]]
            /\ UNCHANGED profile
       ELSE IF Truthy(enabled)
       THEN /\ profile' = [profile EXCEPT !.enabled = TRUE]
            /\ pc' = [pc EXCEPT ![c] = [at |-> "full", oca |-> 0, priv |-> 0]]
       ELSE /\ pc' = [pc EXCEPT ![c] = [at |-> "pass", oca |-> 0, priv |-> 0]]
            /\ UNCHANGED profile
    /\ last' = Other("enter", "none")
    /\ UNCHANGED <<enabled, pglogs_enabled, activate_deactivate_pglogs,
                   psql_params_original, environ, pool, sessions, marker,
                   blobs, lines, workers, server, recorded, statlines,
                   report_line, parsed>>

\* entry, up to the yield
Enter(c) ==
    /\ RegistryReady
    /\ pc[c].at = "idle"
    /\ IF Truthy(enabled)
       THEN /\ profile' = [profile EXCEPT !.enabled = TRUE]
            /\ pc' = [pc EXCEPT ![c] = [at |-> "full", oca |-> 0, priv |-> 0]]
       ELSE IF marker[c] # 0
       THEN /\ pc' = [pc EXCEPT ![c] = [at |-> "request", oca |-> marker[c], priv |-> 0]]
            /\ UNCHANGED profile
       ELSE /\ pc' = [pc EXCEPT ![c] = [at |-> "pass", oca |-> 0, priv |-> 0]]
            /\ UNCHANGED profile
    /\ last' = Other("enter", "none")
    /\ UNCHANGED <<enabled, pglogs_enabled, activate_deactivate_pglogs,
                   psql_params_original, environ, pool, sessions, marker,
                   blobs, lines, workers, server, recorded, statlines,
                   report_line, parsed>>

\* the wrapped work runs code: the shared sampler records it on the full
\* path while it is enabled, the private sampler records it on the
\* per-request path
Work(c) ==
    /\ \/ /\ pc[c].at = "full"
          /\ profile.enabled
          /\ profile.stats < MaxBuf
          /\ profile' = [profile EXCEPT !.stats = @ + 1]
          /\ recorded' = recorded \cup
                {s \in DOMAIN sessions : sessions[s].exists /\ IsFull(sessions[s])
                                         /\ sessions[s].state = "enabled"}
          /\ UNCHANGED pc
       \/ /\ pc[c].at = "request"
          /\ pc[c].priv = 0
          /\ pc' = [pc EXCEPT ![c].priv = 1]
          /\ UNCHANGED <<profile, recorded>>
    /\ last' = Other("work", "none")
    /\ UNCHANGED <<enabled, pglogs_enabled, activate_deactivate_pglogs,
                   psql_params_original, environ, pool, sessions, marker,
                   blobs, lines, workers, server, statlines, report_line, parsed>>

\* the outcomes of the persistence tail of the per-request path
TailOutcomes == {"ok", "fails_before_line", "fails_after_line"}

\* RequestLine.dump_stats() then create_request_line() then dump_stats_db()
\* then total_time. The line needs its session to exist (profile_id is
\* required); the blob needs a non-empty buffer. tail says where the first
\* failure happens, if any.
persist_request(st, oca, priv, tail) ==
    IF tail = "fails_before_line" \/ ~st.sessions[oca].exists
    THEN [st EXCEPT !.exc = "Error"]
    ELSE LET id == Len(st.lines) + 1
             st1 == [st EXCEPT !.lines = Append(@, [profile_id |-> oca, alive |-> TRUE,
                                                    timed |-> tail = "ok"])]
             datas == Marshal(priv)
         IN  IF tail = "fails_after_line" THEN [st1 EXCEPT !.exc = "Error"]
             ELSE IF datas = CPROFILE_EMPTY_CHARS THEN st1
             ELSE Attach(st1, MODEL_REQUEST_LINE, id, "py_stats", datas)

\* a persistence tail whose failures propagate
swallow_nothing(st) == [st EXCEPT !.exc = IF @ = "none" THEN "none" ELSE "TailError"]

\* except: pass
swallow(st) == [st EXCEPT !.exc = IF @ = "none" THEN "none" ELSE "swallowed"]

\* exit: the code after the yield; ok says whether the wrapped work
\* returned (TRUE) or raised (FALSE)
Exit(c) ==
    /\ pc[c].at # "idle"
    /\ \E ok \in BOOLEAN, tail \in TailOutcomes :
          LET st == IF pc[c].at = "request" /\ ok
                    THEN swallow(persist_request(Here, pc[c].oca, pc[c].priv, tail))
                    ELSE Here
          IN  /\ Len(st.blobs) <= MaxBlobs
              /\ Len(st.lines) <= MaxLines
              /\ (pc[c].at = "request" /\ ok) \/ tail = "ok"
              /\ Commit([st EXCEPT !.profile.enabled =
                                      IF pc[c].at = "full" /\ Truthy(enabled)
                                      THEN FALSE ELSE @])
              /\ last' = Other(IF pc[c].at = "full" THEN "exit_full"
                               ELSE IF pc[c].at = "request" THEN "exit_request"
                               ELSE "exit_pass",
                               IF ~ok THEN "Error" ELSE st.exc)
    /\ pc' = [pc EXCEPT ![c] = Idle]
    /\ UNCHANGED <<pglogs_enabled, psql_params_original, workers, server, recorded,
                   report_line, parsed>>

----------------------------------------------------------------------------
(* The indexing loop of dump_stats on one line of the report. A line is a  *)
(* sequence of characters (strings of length one).                          *)

Digit == {"0", "1", "2", "3", "4", "5", "6", "7", "8", "9"}

\* \s
Space == {" ", "\t"}

DigitVal(c) ==
    CASE c = "0" -> 0 [] c = "1" -> 1 [] c = "2" -> 2 [] c = "3" -> 3 [] c = "4" -> 4
      [] c = "5" -> 5 [] c = "6" -> 6 [] c = "7" -> 7 [] c = "8" -> 8 [] c = "9" -> 9

\* the first index from i on whose character is not in S (Len(l) + 1 if none):
\* where a greedy S* that starts at i ends
RECURSIVE RunEnd(_, _, _)
RunEnd(l, i, S) == IF i > Len(l) \/ l[i] \notin S THEN i ELSE RunEnd(l, i + 1, S)

\* py_stat_line.strip("\r\n ")
RECURSIVE strip(_)
strip(l) ==
    IF l = << >> THEN l
    ELSE IF Head(l) \in {" ", "\r", "\n"} THEN strip(Tail(l))
    ELSE IF l[Len(l)] \in {" ", "\r", "\n"} THEN strip(SubSeq(l, 1, Len(l) - 1))
    ELSE l

\* (?P<ncalls>\d+/?\d+|\d+) at i: the index after the group, 0 if it does not
\* match. What follows the group is \s, so only the longest match can do.
NcallsEnd(l, i) ==
    LET a == RunEnd(l, i, Digit)
    IN  IF a = i THEN 0
        ELSE IF a <= Len(l) /\ l[a] = "/" /\ RunEnd(l, a + 1, Digit) > a + 1
        THEN RunEnd(l, a + 1, Digit)
        ELSE a

\* \d+\.?\d+ at i: the index after the group, 0 if it does not match (one
\* digit alone does not match: both \d+ need a digit)
NumberEnd(l, i) ==
    LET a == RunEnd(l, i, Digit)
    IN  IF a = i THEN 0
        ELSE IF a <= Len(l) /\ l[a] = "." /\ RunEnd(l, a + 1, Digit) > a + 1
        THEN RunEnd(l, a + 1, Digit)
        ELSE IF a - i >= 2 THEN a ELSE 0

\* \s+ at i: the index after it, 0 if it does not match
SpaceEnd(l, i) == LET a == RunEnd(l, i, Space) IN IF a = i THEN 0 ELSE a

\* the positions k of a ":" from p on where :(?P<lineno>\d+)\((?P<method>.*)\)
\* matches
LocationStarts(l, p) ==
    {k \in p..Len(l) :
        /\ l[k] = ":"
        /\ LET d == RunEnd(l, k + 1, Digit)
           IN  d > k + 1 /\ d <= Len(l) /\ l[d] = "("
               /\ \E r \in (d + 1)..Len(l) : l[r] = ")"}

Max(S) == CHOOSE x \in S : \A y \in S : y <= x

\* the five numbers of LINE_STATS_RE from group n at i on, each followed by
\* \s+: the <<first, after>> of each of them, acc being those matched so far,
\* then the index after the last \s+; << >> if they do not match
RECURSIVE Numbers(_, _, _, _)
RECURSIVE AfterNumber(_, _, _, _, _)
RECURSIVE AfterSpace(_, _, _, _)
Numbers(l, i, n, acc) ==
    AfterNumber(l, i, IF n = 1 THEN NcallsEnd(l, i) ELSE NumberEnd(l, i), n, acc)
AfterNumber(l, i, e, n, acc) ==
    IF e = 0 THEN << >> ELSE AfterSpace(l, SpaceEnd(l, e), n, Append(acc, <<i, e>>))
AfterSpace(l, b, n, acc) ==
    IF b = 0 THEN << >>
    ELSE IF n = 5 THEN Append(acc, <<b, b>>)
    ELSE Numbers(l, b, n + 1, acc)

\* the text of group n
Group(l, g, n) == SubSeq(l, g[n][1], g[n][2] - 1)

\* the groups of a match whose location starts at the ":" at k, its line
\* number ends before d and its method before r
Groups(l, g, k, d, r) ==
    [matched |-> TRUE,
     ncalls |-> Group(l, g, 1),
     tottime |-> Group(l, g, 2),
     tt_percall |-> Group(l, g, 3),
     cumtime |-> Group(l, g, 4),
     ct_percall |-> Group(l, g, 5),
     file |-> SubSeq(l, g[6][1], k - 1),
     lineno |-> SubSeq(l, k + 1, d - 1),
     method |-> SubSeq(l, d + 1, r - 1)]

\* (?P<file>.*) is greedy, so the location starts at the last ":" that allows
\* a match, and (?P<method>.*) ends at the last ")"
Location(l, g, ks) ==
    IF ks = {} THEN [matched |-> FALSE]
    ELSE Groups(l, g, Max(ks), RunEnd(l, Max(ks) + 1, Digit),
                Max({x \in DOMAIN l : l[x] = ")"}))

\* the match of the numbers g continued by the location
NumbersThenLocation(l, g) ==
    IF g = << >> THEN [matched |-> FALSE]
    ELSE Location(l, g, LocationStarts(l, g[6][1]))

\* LINE_STATS_RE.match(l): the groups, if it matches
LINE_STATS_RE(l) == NumbersThenLocation(l, Numbers(l, 1, 1, << >>))

RECURSIVE IntOf(_)
IntOf(ds) ==
    IF ds = << >> THEN 0
    ELSE IntOf(SubSeq(ds, 1, Len(ds) - 1)) * 10 + DigitVal(ds[Len(ds)])

\* a float as <<m, e>>, the number m / 10^e with the fewest decimals e
RECURSIVE Normalize(_, _)
Normalize(m, e) == IF e > 0 /\ m % 10 = 0 THEN Normalize(m \div 10, e - 1) ELSE <<m, e>>

\* the conversion of the text of a number to the value of a Float field
ToFloat(tok) ==
    LET dots == {i \in DOMAIN tok : tok[i] = "."}
    IN  IF dots = {} THEN Normalize(IntOf(tok), 0)
        ELSE LET i == CHOOSE x \in dots : TRUE
             IN  Normalize(IntOf(SubSeq(tok, 1, i - 1) \o SubSeq(tok, i + 1, Len(tok))),
                           Len(tok) - i)

\* str.split(sep)
RECURSIVE split(_, _)
split(l, sep) ==
    LET at == {i \in DOMAIN l : l[i] = sep}
    IN  IF at = {} THEN <<l>>
        ELSE LET i == CHOOSE x \in at : \A y \in at : x <= y
             IN  <<SubSeq(l, 1, i - 1)>> \o split(SubSeq(l, i + 1, Len(l)), sep)

\* ("%(ncalls)s/%(ncalls)s" % data).split("/")[:2]: the two counts of
\* "n/m", or "n" twice
ncalls_parts(ncalls) == SubSeq(split(ncalls \o <<"/">> \o ncalls, "/"), 1, 2)

\* self.env["profiler.profile.python.line"].create(data) for the match m,
\* the counts being parts
python_line(m, parts) ==
    [status |-> "created",
     cprof_tottime |-> ToFloat(m.tottime),
     cprof_ncalls |-> ToFloat(parts[2]),
     cprof_nrcalls |-> ToFloat(parts[1]),
     cprof_ttpercall |-> ToFloat(m.tt_percall),
     cprof_cumtime |-> ToFloat(m.cumtime),
     cprof_ctpercall |-> ToFloat(m.ct_percall),
     cprof_fname |-> m.file \o <<":">> \o m.lineno \o <<" ", "(">>
                      \o m.method \o <<")">>]

\* the line created for the match m, or nothing when there is no match
line_of_match(m) ==
    IF ~m.matched THEN [status |-> "skipped"]
    ELSE python_line(m, ncalls_parts(m.ncalls))

\* the stripped line: nothing when it is empty, else what its match gives
stripped_line(py_stat_line) ==
    IF py_stat_line = << >> THEN [status |-> "skipped"]
    ELSE line_of_match(LINE_STATS_RE(py_stat_line))

\* one turn of the loop over py_stats.splitlines(): the python line created
\* for the line, or nothing when the line is empty or does not match
stat_line(line) == stripped_line(strip(line))

\* the indexing loop reads the line
ParseLine ==
    /\ parsed.status = "none"
    /\ parsed' = stat_line(report_line)
    /\ last' = Other("parse", "none")
    /\ UNCHANGED <<enabled, pglogs_enabled, activate_deactivate_pglogs,
                   psql_params_original, environ, pool, profile, sessions, marker, pc,
                   blobs, lines, statlines, workers, server, report_line, recorded>>

\* the lines of a report: leading blanks, the five numbers separated by
\* blanks, the location; and lines of the header
LineLeads == {<< >>, <<" ", " ", " ">>}
LineSeps == {<<" ">>, <<" ", " ">>}
LineNcalls == 
    {<<"1", "0", "/", "1", "0">>,
     <<"1", "2", "/", "1", "0">>,
     <<"5">>}
LineTottimes == {<<"0", ".", "0", "2", "0">>, <<"1", ".", "5">>}
LineCumtimes == {<<"0", ".", "0", "5", "0">>, <<"2", ".", "2", "5">>}
LineLocations == 
    {<<"m", "y", "m", "o", "d", "u", "l", "e", ".", "p", "y", ":", "4", "2", "(", "m", "y", "f", "u", "n", "c", ")">>,
     <<"a", ":", "1", "/", "b", ".", "p", "y", ":", "7", "(", "<", "l", "a", "m", "b", "d", "a", ">", ")">>,
     <<"{", "b", "u", "i", "l", "t", "-", "i", "n", " ", "m", "e", "t", "h", "o", "d", "}">>}
HeaderLines == 
    {<<"O", "r", "d", "e", "r", "e", "d", " ", "b", "y", ":", " ", "c", "u", "m", "u", "l", "a", "t", "i", "v", "e", " ", "t", "i", "m", "e">>}

ReportLines ==
    {lead \o n \o sep \o tt \o sep \o <<"0", ".", "0", "0", "2", "0">> \o sep \o ct \o sep
          \o <<"0", ".", "0", "0", "5", "0">> \o sep \o loc :
        lead \in LineLeads, n \in LineNcalls, sep \in LineSeps, tt \in LineTottimes,
        ct \in LineCumtimes, loc \in LineLocations}
    \cup HeaderLines

----------------------------------------------------------------------------
(* Initial states and specifications *)

SessionConfigs ==
    [python_method : {"full", "request"}, enable_python : BOOLEAN,
     enable_postgresql : BOOLEAN]

NewSession(cfg) ==
    [exists |-> TRUE, python_method |-> cfg.python_method,
     enable_python |-> cfg.enable_python, enable_postgresql |-> cfg.enable_postgresql,
     state |-> "disabled", date_started |-> "unset", date_finished |-> "unset"]

\* the server's own values: those of pgparams_required may already be the
\* target ones (logging configured in postgresql.conf)
ServerValues ==
    {v \in [Params -> {"o", "t"}] : \A p \in Params \ pgparams_required : v[p] = "o"}

NotConfigured == {[p \in Params |-> "o"]}

\* Sessions are interchangeable: of the assignments of configurations that
\* differ by renaming the sessions, one is kept.
Rank(cfg) ==
    (IF cfg.python_method = "full" THEN 0 ELSE 4)
    + (IF cfg.enable_python THEN 0 ELSE 2) + (IF cfg.enable_postgresql THEN 0 ELSE 1)

Assignments(nS, Cfgs) ==
    {f \in [1..nS -> Cfgs] : \A s \in 1..(nS - 1) : Rank(f[s]) <= Rank(f[s + 1])}

InitProgram(nS, nC, nK, Cfgs, Workers, Environs, Servers) ==
    /\ enabled = "None"
    /\ pglogs_enabled = "None"
    /\ activate_deactivate_pglogs = "None"
    /\ psql_params_original = << >>
    /\ environ \in Environs
    /\ server \in Servers
    /\ pool = [k \in 1..nK |-> server]
    /\ profile = [enabled |-> FALSE, stats |-> 0]
    /\ \E f \in Assignments(nS, Cfgs) : sessions = [s \in 1..nS |-> NewSession(f[s])]
    /\ marker = [c \in 1..nC |-> 0]
    /\ pc = [c \in 1..nC |-> Idle]
    /\ blobs = << >>
    /\ lines = << >>
    /\ statlines = [s \in 1..nS |-> 0]
    /\ workers \in Workers
    /\ recorded = {}
    /\ last = Other("init", "none")

InitWith(nS, nC, nK, Cfgs, Workers, Environs, Servers) ==
    /\ report_line = << >>
    /\ parsed = [status |-> "none"]
    /\ InitProgram(nS, nC, nK, Cfgs, Workers, Environs, Servers)

\* every operation; one context, one connection, logging not requested
Init ==
    InitWith(NSessions, OneContext, OneConn,
             {c \in SessionConfigs : c.enable_python /\ ~c.enable_postgresql},
             {0}, {""}, NotConfigured)

Next ==
    \/ \E k \in DOMAIN pool : SetupComplete(k)
    \/ \E c \in DOMAIN pc, s \in DOMAIN sessions : Enable(c, s)
    \/ \E c \in DOMAIN pc, s \in DOMAIN sessions : Disable(c, s)
    \/ \E c \in DOMAIN pc, s \in DOMAIN sessions : Clear(c, s)
    \/ \E c \in DOMAIN pc, s \in DOMAIN sessions : Unlink(c, s)
    \/ Tick
    \/ \E c \in DOMAIN pc : Enter(c)
    \/ \E c \in DOMAIN pc : Work(c)
    \/ \E c \in DOMAIN pc : Exit(c)

Spec == Init /\ [][Next]_vars

\* the coordinator alone, no unit of work in flight: several contexts,
\* one or several worker processes
InitCoord ==
    InitWith(NSessions, NContexts, OneConn,
             {c \in SessionConfigs : c.enable_python /\ ~c.enable_postgresql},
             {0, 2}, {""}, NotConfigured)

NextCoord ==
    \/ \E k \in DOMAIN pool : SetupComplete(k)
    \/ \E c \in DOMAIN pc, s \in DOMAIN sessions : Enable(c, s)
    \/ \E c \in DOMAIN pc, s \in DOMAIN sessions : Disable(c, s)
    \/ \E c \in DOMAIN pc, s \in DOMAIN sessions : Clear(c, s)
    \/ \E c \in DOMAIN pc, s \in DOMAIN sessions : Unlink(c, s)
    \/ Tick

\* every operation within one reading of the server clock
NextScope ==
    \/ \E k \in DOMAIN pool : SetupComplete(k)
    \/ \E c \in DOMAIN pc, s \in DOMAIN sessions : Enable(c, s)
    \/ \E c \in DOMAIN pc, s \in DOMAIN sessions : Disable(c, s)
    \/ \E c \in DOMAIN pc, s \in DOMAIN sessions : Clear(c, s)
    \/ \E c \in DOMAIN pc, s \in DOMAIN sessions : Unlink(c, s)
    \/ \E c \in DOMAIN pc : Enter(c)
    \/ \E c \in DOMAIN pc : Work(c)
    \/ \E c \in DOMAIN pc : Exit(c)

SpecScope == Init /\ [][NextScope]_vars

SpecCoord == InitCoord /\ [][NextCoord]_vars

\* the indexing loop on one line of a report
InitParse ==
    /\ report_line \in ReportLines
    /\ parsed = [status |-> "none"]
    /\ InitProgram(PoolSessions, 1, OneConn,
                   {c \in SessionConfigs : c.enable_python /\ c.python_method = "full"
                                           /\ ~c.enable_postgresql},
                   {0}, {""}, NotConfigured)

NextParse == ParseLine

SpecParse == InitParse /\ [][NextParse]_vars

\* the connection pool reconfigurator: sessions that request database
\* logging, called from one context; several connections, logging
\* configured outside or not, one or several worker processes
InitPool ==
    InitWith(PoolSessions, 1, NConns, {c \in SessionConfigs : c.enable_postgresql},
             {0, 2}, {"", "external"}, ServerValues)

NextPool ==
    \/ \E k \in DOMAIN pool : SetupComplete(k)
    \/ \E c \in DOMAIN pc, s \in DOMAIN sessions : Enable(c, s)
    \/ \E c \in DOMAIN pc, s \in DOMAIN sessions : Disable(c, s)
    \/ Tick

SpecPool == InitPool /\ [][NextPool]_vars

\* the reconfigurator with several sessions that request database logging,
\* logging not configured outside, one worker process
InitLogging ==
    InitWith(NSessions, 1, NConns, {c \in SessionConfigs : c.enable_postgresql},
             {0}, {""}, NotConfigured)

SpecLogging == InitLogging /\ [][NextPool]_vars

----------------------------------------------------------------------------
(* The claims *)

Sessions == DOMAIN sessions

\* the full-mode sessions in state enabled
FullEnabled ==
    {s \in Sessions : sessions[s].exists /\ IsFull(sessions[s])
                      /\ sessions[s].state = "enabled"}

\* C1: enable() of a full-mode session while another full-mode session is
\* enabled and the process flag is set fails with a user error, and the
\* enabled session's record (state, start timestamp) and the flag stay as
\* they were.
C1_SecondFullEnableFails ==
    [][\A s \in Sessions, o \in Sessions :
          (/\ last'.op = "enable" /\ last'.sid = s /\ IsFull(sessions[s])
           /\ o # s /\ o \in FullEnabled /\ Truthy(enabled))
          => (/\ last'.res = "UserError"
              /\ sessions'[o] = sessions[o]
              /\ enabled' = enabled)]_vars

\* C2: at most one full-mode session is in state enabled.
C2_AtMostOneFullEnabled == Cardinality(FullEnabled) <= 1

\* C3: when a unit of work leaves the full-mode path of the sampling scope
\* (the shared sampler was enabled on entry), the shared sampler is disabled,
\* whatever happened during the work.
C3_SamplerDisabledOnExit ==
    [][\A c \in DOMAIN pc :
          (pc[c].at = "full" /\ pc'[c].at = "idle") => ~profile'.enabled]_vars

\* C4: when enable() of a disabled full-mode session that requests database
\* logging meets a rejected parameter change, it raises a user error and the
\* process flag (not set before) and the session's record (disabled, start
\* timestamp) stay as they were.
C4_RejectedEnableChangesNothing ==
    [][\A s \in Sessions :
          (/\ last'.op = "enable" /\ last'.sid = s /\ last'.pg = "rejected_on"
           /\ IsFull(sessions[s]) /\ sessions[s].state = "disabled"
           /\ ~Truthy(enabled))
          => (/\ last'.res = "UserError"
              /\ enabled' = enabled
              /\ sessions'[s] = sessions[s])]_vars

\* C5: with several worker processes, enable() of a full-mode session raises
\* a user error and changes nothing (flag, session records, connection
\* parameters, PGOPTIONS, markers); enable() of a per-request session is not
\* rejected and enables the session.
C5_MultiWorkerFullEnableFails ==
    [][\A s \in Sessions :
          (last'.op = "enable" /\ last'.sid = s /\ workers # 0)
          => /\ IsFull(sessions[s]) =>
                  /\ last'.res = "UserError"
                  /\ UNCHANGED <<enabled, sessions, pool, environ,
                                 activate_deactivate_pglogs, marker, profile>>
             /\ IsRequest(sessions[s]) =>
                  /\ last'.res = "none"
                  /\ sessions'[s].state = "enabled"]_vars

C5_Witness ==
    /\ last.op = "enable" /\ workers # 0 /\ last.res = "UserError"
    /\ IsFull(sessions[last.sid]) /\ sessions[last.sid].enable_postgresql
    /\ pglogs_enabled = "False"

\* C6: the enable and the disable of a per-request session, and the steps of
\* a unit of work on the per-request path, leave an enabled full-mode
\* session's record, the process flag and the shared sampler's buffer as
\* they were.
C6_PerRequestLeavesFullModeAlone ==
    [][\A f \in FullEnabled :
          (\/ /\ last'.op \in {"enable", "disable"}
              /\ last'.sid \in Sessions /\ IsRequest(sessions[last'.sid])
           \/ \E c \in DOMAIN pc : pc[c].at = "request" /\ pc'[c] # pc[c])
          => (/\ sessions'[f] = sessions[f]
              /\ enabled' = enabled
              /\ profile'.stats = profile.stats)]_vars

\* C7: a pass apply(false) that follows a pass apply(true) and meets no
\* rejection leaves every parameter of every pooled connection at the value
\* cached before apply(true), which is the server's own value.
C7_DisableRestoresParameters ==
    [][(/\ last'.op = "disable" /\ last'.pg = "off"
        /\ activate_deactivate_pglogs = "True")
       => (/\ psql_params_original' = psql_params_original
           /\ psql_params_original = server
           /\ \A k \in DOMAIN pool : \A p \in Params :
                 pool'[k][p] = psql_params_original[p])]_vars

C7_Witness ==
    /\ last.op = "disable" /\ last.pg = "off" /\ last.was = "True"
    /\ server # PGOPTIONS
    /\ \A k \in DOMAIN pool : pool[k] = server

\* C8: when the SET of a parameter is rejected on connection k, the call
\* raises a user error, connection k is rolled back to what it was, no
\* later connection is touched, and the connections before k keep the
\* values the pass gave them.
C8_FailFastNotAllOrNothing ==
    [][(last'.pg \in {"rejected_on", "rejected_off"})
       => LET k == last'.rej[1]
              params == IF last'.pg = "rejected_on" THEN PGOPTIONS
                        ELSE psql_params_original
          IN  /\ last'.res = "UserError"
              /\ pool'[k] = pool[k]
              /\ \A j \in DOMAIN pool : j > k => pool'[j] = pool[j]
              /\ \A j \in DOMAIN pool : j < k =>
                    \A p \in Params : pool'[j][p] = params[p]]_vars

C8_Witness ==
    /\ last.pg = "rejected_on" /\ last.res = "UserError"
    /\ last.rej = <<2, 2>>
    /\ pool[1] = PGOPTIONS /\ pool[2] # PGOPTIONS

\* C9: while pglogs_enabled says that logging is configured outside,
\* enable() and disable() leave every pooled connection's parameters and
\* PGOPTIONS as they were.
C9_ExternalConfigurationUntouched ==
    [][(Truthy(pglogs_enabled) /\ last'.op \in {"enable", "disable"})
       => (pool' = pool /\ environ' = environ)]_vars

C9_Witness ==
    /\ last.op = "disable" /\ last.pg = "external" /\ last.res = "none"
    /\ sessions[last.sid].enable_postgresql
    /\ Truthy(pglogs_enabled)

\* C10: a full-mode disable() with a non-empty buffer that meets a failure
\* of the analyzer step returns without raising, with the sample blob
\* stored, the shared buffer cleared and _reset_postgresql called.
C10_AnalyzerNeverAbortsDump ==
    [][\A s \in Sessions :
          (/\ last'.op = "disable" /\ last'.sid = s /\ IsFull(sessions[s])
           /\ profile.stats > 0 /\ last'.az \in AnalyzerFailures)
          => (/\ last'.res = "none"
              /\ \E i \in DOMAIN blobs' :
                    /\ i > Len(blobs)
                    /\ blobs'[i] = [res_model |-> MODEL_PROFILE, res_id |-> s,
                                    kind |-> "py_stats", datas |-> Marshal(profile.stats)]
              /\ profile'.stats = 0
              /\ last'.pg # "not_reached")]_vars

\* C11: a sample blob is created only from a buffer that is neither empty
\* nor the sentinel, in both modes; and the disable() that ends a full-mode
\* cycle during which the shared sampler recorded no work creates no blob
\* and raises no error.
C11_BlobOnlyFromRecordedWork ==
    [][/\ \A i \in DOMAIN blobs' :
             (i > Len(blobs) /\ blobs'[i].kind = "py_stats")
             => blobs'[i].datas # CPROFILE_EMPTY_CHARS
       /\ \A s \in Sessions :
             (/\ last'.op = "disable" /\ last'.sid = s /\ IsFull(sessions[s])
              /\ sessions[s].state = "enabled" /\ s \notin recorded)
             => (blobs' = blobs /\ last'.res = "none")]_vars

\* the sample blob a dump of session s makes of the shared buffer
SampleBlob(s) ==
    [res_model |-> MODEL_PROFILE, res_id |-> s, kind |-> "py_stats",
     datas |-> Marshal(profile.stats)]

\* the blob that holds the analyzer's HTML report of session s
ReportBlob(s) ==
    [res_model |-> MODEL_PROFILE, res_id |-> s, kind |-> "pg_stats", datas |-> 1]

OwnerExists(b, ss, ls) ==
    IF b.res_model = MODEL_PROFILE THEN ss[b.res_id].exists
    ELSE b.res_id \in DOMAIN ls /\ ls[b.res_id].alive

\* C13: the deletion of a session removes its request lines, its stat lines
\* and its blobs, and leaves no blob whose owner record (the session or one
\* of its request lines) is deleted.
C13_UnlinkLeavesNoOrphans ==
    [][\A s \in Sessions :
          (last'.op = "unlink" /\ last'.sid = s)
          => (/\ ~sessions'[s].exists
              /\ \A i \in DOMAIN lines' : lines'[i].profile_id = s => ~lines'[i].alive
              /\ statlines'[s] = 0
              /\ \A i \in DOMAIN blobs' : OwnerExists(blobs'[i], sessions', lines'))]_vars

\* C14: on the per-request path, a failure of the persistence tail
\* (serialising the buffer, creating the request line, storing its blob)
\* does not leave the scope: the unit of work that returned still returns,
\* and the process flag, the markers and the session states are unchanged.
C14_TailFailureSwallowed ==
    [][(last'.op = "exit_request" /\ last'.res # "Error")
       => (/\ last'.res \in {"none", "swallowed"}
           /\ last'.res = "swallowed" =>
                 /\ UNCHANGED <<enabled, marker>>
                 /\ \A s \in Sessions : sessions'[s].state = sessions[s].state)]_vars

C14_Witness ==
    /\ last.op = "exit_request" /\ last.res = "swallowed"
    /\ Len(lines) = 1 /\ ~lines[1].timed /\ blobs = << >>

\* C15: an enable() that returns, of a full-mode or per-request session
\* that requests database logging while logging is not configured outside,
\* runs a pass apply(true): every pooled connection gets the target values.
C15_EnableAppliesLogging ==
    [][\A s \in Sessions :
          (/\ last'.op = "enable" /\ last'.sid = s /\ last'.res = "none"
           /\ (IsFull(sessions[s]) \/ IsRequest(sessions[s]))
           /\ sessions[s].enable_postgresql /\ ~Truthy(pglogs_enabled))
          => (/\ last'.pg = "on"
              /\ \A k \in DOMAIN pool : pool'[k] = PGOPTIONS)]_vars

\* C16: after a disable() of a per-request session that returns, no
\* context carries a marker that names the session, whichever context the
\* call was made from.
C16_DisableClearsMarker ==
    [][\A s \in Sessions :
          (/\ last'.op = "disable" /\ last'.sid = s /\ last'.res = "none"
           /\ IsRequest(sessions[s]))
          => \A c \in DOMAIN marker : marker'[c] # s]_vars

\* the line "10/10  0.020  0.0020  0.050  0.0050  mymodule.py:42(myfunc)"
ExampleLine ==
    <<"1", "0", "/", "1", "0", " ", " ", "0", ".", "0", "2", "0", " ", " ", "0", ".", "0", "0", "2", "0", " ", " ", "0", ".", "0", "5", "0", " ", " ", "0", ".", "0", "0", "5", "0", " ", " ", "m", "y", "m", "o", "d", "u", "l", "e", ".", "p", "y", ":", "4", "2", "(", "m", "y", "f", "u", "n", "c", ")">>

\* C17: the indexing loop makes of the example line a stat line with
\* calls = 10, recursive calls = 10, tottime = 0.020, cumtime = 0.050 and
\* fname exactly "mymodule.py:42(myfunc)".
C17_ExampleLineParsed ==
    (report_line = ExampleLine /\ parsed.status # "none")
    => (/\ parsed.status = "created"
        /\ parsed.cprof_ncalls = <<10, 0>>
        /\ parsed.cprof_nrcalls = <<10, 0>>
        /\ parsed.cprof_tottime = <<2, 2>>
        /\ parsed.cprof_cumtime = <<5, 2>>
        /\ parsed.cprof_fname = <<"m", "y", "m", "o", "d", "u", "l", "e", ".", "p", "y", ":", "4", "2", "(", "m", "y", "f", "u", "n", "c", ")">>)

\* C18: disable() of an enabled full-mode session clears the process flag;
\* when it returns, the session is disabled with its end timestamp written,
\* a non-empty shared buffer has been stored in a blob of the session as it
\* was when disable() was called (flushed before it is cleared), and the
\* shared buffer is empty.
C18_DisableFlushesThenClears ==
    [][\A s \in Sessions :
          (/\ last'.op = "disable" /\ last'.sid = s /\ IsFull(sessions[s])
           /\ sessions[s].state = "enabled")
          => (/\ enabled' = "False"
              /\ last'.res = "none" =>
                    /\ sessions'[s].state = "disabled"
                    /\ sessions'[s].date_finished = now_utc
                    /\ profile.stats > 0 =>
                          /\ Len(blobs') > Len(blobs)
                          /\ blobs'[Len(blobs) + 1] = SampleBlob(s)
                    /\ profile'.stats = 0)]_vars

C18_Witness ==
    /\ last.op = "disable" /\ last.res = "none" /\ IsFull(sessions[last.sid])
    /\ last.sid \in recorded
    /\ enabled = "False" /\ sessions[last.sid].state = "disabled"
    /\ sessions[last.sid].date_finished = now_utc
    /\ \E i \in DOMAIN blobs :
          /\ blobs[i].res_id = last.sid /\ blobs[i].res_model = MODEL_PROFILE
          /\ blobs[i].kind = "py_stats" /\ blobs[i].datas > 0
    /\ profile.stats = 0

\* C19: the sampling scope picks one mode per unit of work. Entered with the
\* process flag set, the unit of work takes the full path whatever the
\* context's marker is, and its exit creates no request line and no blob.
\* Entered with the flag off and no marker, it enables no sampler, and its
\* exit persists nothing and leaves the shared sampler alone.
C19_OneModePerUnitOfWork ==
    [][\A c \in DOMAIN pc :
          /\ (pc[c].at = "idle" /\ pc'[c].at # "idle" /\ Truthy(enabled))
             => pc'[c] = [at |-> "full", oca |-> 0, priv |-> 0]
          /\ (pc[c].at = "idle" /\ pc'[c].at # "idle" /\ ~Truthy(enabled)
              /\ marker[c] = 0)
             => (pc'[c] = [at |-> "pass", oca |-> 0, priv |-> 0]
                 /\ profile' = profile)
          /\ (pc[c].at = "full" /\ pc'[c].at = "idle")
             => (lines' = lines /\ blobs' = blobs)
          /\ pc[c].at = "pass" => pc'[c] \in {pc[c], Idle}
          /\ (pc[c].at = "pass" /\ pc'[c].at = "idle")
             => (lines' = lines /\ blobs' = blobs /\ profile' = profile)]_vars

\* a unit of work has just been entered on the full path by a context that
\* carries a marker
C19_Witness ==
    /\ last.op = "enter"
    /\ \E c \in DOMAIN pc :
          /\ pc[c].at = "full" /\ marker[c] # 0 /\ Truthy(enabled)
          /\ \A d \in DOMAIN pc \ {c} : pc[d].at = "idle"

\* C20: clear(reset_date) empties the shared buffer; it writes the start
\* timestamp of the session when reset_date is true and leaves it alone
\* otherwise; the state and the end timestamp of the session, the other
\* sessions, the process flag, the markers of the contexts and the parameters
\* of the connections are unchanged.
C20_ClearFrame ==
    [][\A s \in Sessions :
          (last'.op \in {"clear", "clear_reset"} /\ last'.sid = s)
          => (/\ profile'.stats = 0
              /\ sessions' = [sessions EXCEPT ![s].date_started =
                                 IF last'.op = "clear_reset" THEN now_utc ELSE @]
              /\ enabled' = enabled
              /\ marker' = marker
              /\ pool' = pool
              /\ environ' = environ
              /\ activate_deactivate_pglogs' = activate_deactivate_pglogs)]_vars

\* clear(True) has given a start timestamp to a session that was never
\* enabled
C20_Witness ==
    /\ last.op = "clear_reset"
    /\ sessions[last.sid].date_started = now_utc
    /\ sessions[last.sid].date_finished = "unset"
    /\ sessions[last.sid].state = "disabled"
    /\ profile.stats = 0

\* C21: after any sequence of enable(), disable(), clear() and deletions, the
\* process-wide flag is true if and only if some existing full-mode session
\* is in state enabled.
C21_FlagIffFullSessionEnabled ==
    Truthy(enabled) <=>
        \E s \in Sessions : /\ sessions[s].exists /\ IsFull(sessions[s])
                            /\ sessions[s].state = "enabled"

\* C22: after any sequence of enable() and disable() from any contexts, an
\* existing per-request session is in state enabled if and only if some
\* context carries a marker naming it.
C22_MarkerIffRequestSessionEnabled ==
    \A s \in Sessions :
        (sessions[s].exists /\ IsRequest(sessions[s]))
        => (sessions[s].state = "enabled" <=> \E c \in DOMAIN marker : marker[c] = s)

\* C23: while a session that requests database logging is enabled, logging
\* is not configured outside and every pooled connection has the target
\* values, the disable() of a different session that leaves the session
\* enabled leaves every pooled connection at the target values.
C23_OtherDisableKeepsTarget ==
    [][\A s \in Sessions :
          (/\ sessions[s].exists /\ sessions[s].state = "enabled"
           /\ sessions[s].enable_postgresql
           /\ RegistryReady /\ ~Truthy(pglogs_enabled)
           /\ \A k \in DOMAIN pool : pool[k] = PGOPTIONS
           /\ last'.op = "disable" /\ last'.sid # s
           /\ sessions'[s].state = "enabled")
          => \A k \in DOMAIN pool : pool'[k] = PGOPTIONS]_vars

\* C24: the disable() that returns, of an enabled session that requests
\* database logging and whose enable() gave every pooled connection the
\* target values, leaves every pooled connection at the server's own values,
\* whether or not the probe of _setup_complete ran again in between.
C24_ProbeRerunKeepsRestore ==
    [][\A s \in Sessions :
          (/\ last'.op = "disable" /\ last'.sid = s /\ last'.res = "none"
           /\ sessions[s].state = "enabled" /\ sessions[s].enable_postgresql
           /\ activate_deactivate_pglogs = "True"
           /\ \A k \in DOMAIN pool : pool[k] = PGOPTIONS)
          => \A k \in DOMAIN pool : pool'[k] = server]_vars

====
